---- MODULE Spec2Model ----
(***************************************************************************)
(* Model of src/main.py: a Telegram bot that watches chess.com presence.   *)
(* Two threads share the registry under STATE_LOCK: monitor_loop (the      *)
(* polling cycle) and handle_commands (the chat-command loop).             *)
(*                                                                         *)
(* Conventions: a Python dict is a function on the set of its keys; Python *)
(* None / a falsy number is 0 for timestamps and message ids and the       *)
(* string "None" for tokens and statuses; an optional record is a sequence *)
(* of length 0 or 1.                                                       *)
(*                                                                         *)
(* Granularity: a step that needs STATE_LOCK is enabled only when the lock *)
(* is free and stands for the wait as well; a critical section without a   *)
(* call into the network is one step; a network call made while the lock   *)
(* is held has a state of its own (mon_net, cmd_net), entered by one step  *)
(* and left by the next. The calls of step 2, which touch no shared state, *)
(* are one step. hist_watch and outbox are history variables.              *)
(***************************************************************************)
EXTENDS Integers, Sequences, FiniteSets, TLC

\* ------------------------------------------------------------------------
\* Bounds of the model (not program constants)
\* ------------------------------------------------------------------------
\* number of monitor cycles a behaviour runs
MaxCycles == 2
\* number of updates (command messages) a behaviour handles
MaxUpdates == 2

\* ------------------------------------------------------------------------
\* Configuration and input domains
\* ------------------------------------------------------------------------
BOT_ADMIN_ID == "100"
MAX_USERNAMES_PER_USER == 10

\* chat users that send commands: the admin and one other subscriber
Users == {"100", "42"}
\* handles as typed by users, and the handles after .lower()
RawNames == {"A", "b"}
Names == {"a", "b"}
\* tokens (uuids) the identity-resolution endpoint may return for a handle;
\* "b" may come back with the token of "a"
Tokens == {"t1", "t2"}
ApiUuids(username) == IF username = "a" THEN {"t1"} ELSE Tokens
\* last_online values the profile endpoint may return (0 = none)
LastOnline == {0, 1}
\* message ids the sendDocument call may return (0 = none)
MessageIds == {0, 1}
\* statuses the presence endpoint may return
Statuses == {"online", "offline"}
\* status codes of the presence endpoint
StatusCodes == {200, 500}
\* first word of a command text
Words == {"/authorize", "/unauthorize", "/add", "/remove", "/list", "/status", "/start"}

\* ------------------------------------------------------------------------
\* dict helpers
\* ------------------------------------------------------------------------
Get(f, k, d) == IF k \in DOMAIN f THEN f[k] ELSE d
Put(f, k, v) == [x \in (DOMAIN f) \cup {k} |-> IF x = k THEN v ELSE f[x]]

\* a pop that leaves the entry in the dict
Pop_keep(f, k) == f

\* dict.pop(k, None)
Pop(f, k) == [x \in (DOMAIN f) \ {k} |-> f[x]]

EmptyDict == [x \in {} |-> 0]

\* a handle left as typed
Lower_asis(s) == s

\* str.lower() on the handles of RawNames
Lower(s) == IF s = "A" THEN "a" ELSE s

\* str.upper() on a status (or the "UNKNOWN" default of /status)
Upper(s) == CASE s = "online" -> "ONLINE"
              [] s = "offline" -> "OFFLINE"
              [] OTHER -> "UNKNOWN"

\* text.startswith(prefix) for the words of Words: none of them is a proper
\* prefix of another, so it holds exactly when the first word is the prefix
StartsWith(word, prefix) == word = prefix

\* order of the handles under Python's string comparison
Rank(n) == IF n = "a" THEN 1 ELSE 2

\* sorted(list(S)) for a set of handles
RECURSIVE sorted(_)
sorted(S) ==
  IF S = {} THEN << >>
  ELSE LET m == CHOOSE x \in S : \A y \in S : Rank(x) <= Rank(y)
       IN << m >> \o sorted(S \ {m})

\* list(S): the elements of a set in some iteration order
RECURSIVE list(_)
list(S) ==
  IF S = {} THEN << >>
  ELSE LET m == CHOOSE x \in S : TRUE
       IN << m >> \o list(S \ {m})

\* set(l) for a list
set(l) == {l[i] : i \in DOMAIN l}

\* dict.update
Update(f, g) == [x \in (DOMAIN f) \cup (DOMAIN g) |-> IF x \in DOMAIN g THEN g[x] ELSE f[x]]

\* convert_unix_to_ist: "Unknown" for a falsy timestamp, else the formatted time
convert_unix_to_ist(t) ==
  IF t = 0 THEN [text |-> "Unknown", secs |-> 0]
  ELSE [text |-> "IST", secs |-> t + 19800]

VARIABLES
  STATE_LOCK,            \* "free", or the thread holding it: "mon" / "cmd"
  AUTHORIZED_USERS,      \* set of user ids
  PER_USER_LIMITS,       \* user id -> limit
  user_monitored,        \* user id -> set of handles (defaultdict(set))
  LATEST_DB_MESSAGE_ID,  \* 0 = None
  user_uuids,            \* handle -> token
  user_last_status,      \* handle -> status
  user_last_seen_unix,   \* handle -> timestamp (0 = None)
  db_json,               \* the file db.json: << >> or << payload >>
  \* --- monitor_loop ---
  mon_pc,                \* "start","resolve","commit","check","fetch","process",
                         \* "loop","sleep","failed" (the sleep after a failed presence request)
  users_needing_uuid,    \* handles still to resolve in step 2
  new_uuid_data,         \* handle -> [uuid, last_online_unix]
  uuids_to_check,        \* tokens of the presence request
  presence_resp,         \* << >> or << [status_code] >>: the presence response of the cycle
  presence_data,         \* token -> status, of the presence response
  uuid_to_username,      \* token -> handle, built in step 5
  mon_todo,              \* tokens of presence_data not yet processed in step 5
  mon_cur,               \* << >> or << [username, new_status, previous_status] >>
  mon_net,               \* network call the monitor thread is inside: "none","send","lookup"
  outbox,                \* << user id, handle >> -> alerts sent in the current cycle
  \* --- handle_commands ---
  cmd_pc,                \* "poll","save","reply","done"
  cmd_cur,               \* << >> or << [sender, word, args] >>: the update being handled
  cmd_out,               \* << >> or << reply >>: reply to send before the lock is released
  cmd_replies,           \* replies sent for the current update
  cmd_net,               \* network call the command thread is inside: "none","unpin",
                         \* "upload","pin","send"
  cycles,                \* monitor cycles started
  updates,               \* updates taken from getUpdates
  hist_watch,            \* history: user id -> handles it added and has not since removed
  hist_last_seen         \* history: user_last_seen_unix without the writes the monitor
                         \* thread has made in a cycle whose presence request has not
                         \* (yet) succeeded

registry == << AUTHORIZED_USERS, PER_USER_LIMITS, user_monitored >>
caches == << user_uuids, user_last_status, user_last_seen_unix >>
monvars == << mon_pc, users_needing_uuid, new_uuid_data, uuids_to_check, presence_resp, presence_data,
              uuid_to_username, mon_todo, mon_cur, mon_net, outbox >>
cmdvars == << cmd_pc, cmd_cur, cmd_out, cmd_replies, cmd_net, hist_watch >>
vars == << STATE_LOCK, AUTHORIZED_USERS, PER_USER_LIMITS, user_monitored,
           LATEST_DB_MESSAGE_ID, user_uuids, user_last_status, user_last_seen_unix,
           db_json, monvars, cmdvars, cycles, updates, hist_last_seen >>

\* ------------------------------------------------------------------------
\* Persistence: save_user_data / load_user_data
\* ------------------------------------------------------------------------
\* a payload without the authorized users
payload_no_authorized(um, limits, auth, latest) ==
  [ user_monitored |-> [uid \in DOMAIN um |-> list(um[uid])],
    limits |-> limits,
    authorized_users |-> << >>,
    latest_db_message_id |-> latest ]

\* the payload save_user_data dumps to db.json
payload(um, limits, auth, latest) ==
  [ user_monitored |-> [uid \in DOMAIN um |-> list(um[uid])],
    limits |-> limits,
    authorized_users |-> list(auth),
    latest_db_message_id |-> latest ]

\* load_user_data on the module-level state, given the json of the pinned
\* document: the watch mapping is replaced, limits and authorized users are
\* updated, the caches are not touched
load_user_data(reg, data) ==
  [ reg EXCEPT
      !.um = [uid \in DOMAIN data.user_monitored |-> set(data.user_monitored[uid])],
      !.limits = Update(reg.limits, data.limits),
      !.auth = reg.auth \cup set(data.authorized_users) ]

\* the module-level state before load_user_data (lines 29-37)
FreshRegistry ==
  [ um |-> EmptyDict, limits |-> EmptyDict, auth |-> {},
    uuids |-> EmptyDict, status |-> EmptyDict, seen |-> EmptyDict ]

\* pinned documents the bot may find in the channel at startup: written by an
\* earlier run; the limits entry is the operator's edit of the document
PinnedDocs ==
  { payload(EmptyDict, EmptyDict, {BOT_ADMIN_ID}, 0),
    payload(("42" :> {"a"}), ("42" :> 1), {BOT_ADMIN_ID, "42"}, 0) }

\* get_all_monitored_usernames
get_all_monitored_usernames(um) == UNION {um[uid] : uid \in DOMAIN um}

\* the users whose watch set contains username (the fan-out test of step 5)
Subscribers(um, username) == {uid \in DOMAIN um : username \in um[uid]}

\* a notification condition that ignores the previous status
ComesOnline_any(new_status, previous_status) == new_status = "online"

\* the notification condition of step 5
ComesOnline(new_status, previous_status) ==
  new_status = "online" /\ previous_status # "online"

\* a refresh condition that holds for every status other than online
GoesOffline_any(new_status, previous_status) == new_status # "online"

\* the last-seen refresh condition of step 5
GoesOffline(new_status, previous_status) ==
  new_status # "online" /\ previous_status = "online"

\* the limit of a user: the override if there is one, else the default
EffectiveLimit(limits, user_id) == Get(limits, user_id, MAX_USERNAMES_PER_USER)

\* a limit test that lets one handle too many in
LimitReached_late(current_set, limit) == Cardinality(current_set) > limit

\* the limit test of /add
LimitReached(current_set, limit) == Cardinality(current_set) >= limit

\* an orphan test that never purges
Orphaned_never(um, username) == FALSE

\* the orphan test of /remove: no watch set contains username
Orphaned(um, username) == ~ \E uid \in DOMAIN um : username \in um[uid]

\* an authorization test that lets everybody in
Authorized_all(auth, user_id) == TRUE

\* the authorization test before the user commands
Authorized(auth, user_id) == user_id \in auth


\* ------------------------------------------------------------------------
\* Startup (__main__): load_user_data, then the admin is authorized, then the
\* two threads start
\* ------------------------------------------------------------------------
Init ==
  /\ \E found \in BOOLEAN, data \in PinnedDocs, message_id \in MessageIds \ {0} :
       LET reg == IF found THEN load_user_data(FreshRegistry, data) ELSE FreshRegistry IN
       /\ user_monitored = reg.um
       /\ PER_USER_LIMITS = reg.limits
       /\ AUTHORIZED_USERS = reg.auth \cup {BOT_ADMIN_ID}
       /\ LATEST_DB_MESSAGE_ID = IF found THEN message_id ELSE 0
       /\ hist_watch = [uid \in Users |-> Get(reg.um, uid, {})]
       /\ user_uuids = reg.uuids
       /\ user_last_status = reg.status
       /\ user_last_seen_unix = reg.seen
       /\ hist_last_seen = reg.seen
  /\ STATE_LOCK = "free"
  /\ db_json = << >>
  /\ mon_pc = "start"
  /\ users_needing_uuid = {}
  /\ new_uuid_data = EmptyDict
  /\ uuids_to_check = {}
  /\ presence_resp = << >>
  /\ presence_data = EmptyDict
  /\ uuid_to_username = EmptyDict
  /\ mon_todo = {}
  /\ mon_cur = << >>
  /\ mon_net = "none"
  /\ outbox = [p \in Users \X Names |-> 0]
  /\ cmd_pc = "poll"
  /\ cmd_cur = << >>
  /\ cmd_out = << >>
  /\ cmd_replies = << >>
  /\ cmd_net = "none"
  /\ cycles = 0
  /\ updates = 0

\* ------------------------------------------------------------------------
\* monitor_loop
\* ------------------------------------------------------------------------
\* step 1: under the lock, snapshot the watched handles and list those
\* without a token; with nothing watched the thread sleeps inside the
\* `with STATE_LOCK` block
MonSnapshot ==
  /\ mon_pc = "start"
  /\ cycles < MaxCycles
  /\ cycles' = cycles + 1
  /\ STATE_LOCK = "free"
  /\ LET all_usernames == get_all_monitored_usernames(user_monitored)
         needing == {u \in all_usernames : u \notin DOMAIN user_uuids} IN
       IF all_usernames = {}
       THEN /\ STATE_LOCK' = "mon"
            /\ mon_pc' = "sleep"
            /\ users_needing_uuid' = {}
       ELSE /\ STATE_LOCK' = "free"
            /\ users_needing_uuid' = needing
            /\ mon_pc' = IF needing = {} THEN "check" ELSE "resolve"
  /\ new_uuid_data' = EmptyDict
  /\ UNCHANGED << registry, caches, LATEST_DB_MESSAGE_ID, db_json, cmdvars, updates,
                  uuids_to_check, presence_data, uuid_to_username, mon_todo, mon_cur,
                  mon_net, outbox >>
  /\ UNCHANGED presence_resp
  /\ UNCHANGED hist_last_seen

\* step 2: get_user_data_from_api for every handle of the list, outside the
\* lock; a result is kept only when it carries a uuid
MonResolve ==
  /\ mon_pc = "resolve"
  /\ \E got \in SUBSET users_needing_uuid :
       \E data \in [got -> [uuid : Tokens, last_online_unix : LastOnline]] :
         /\ \A username \in got : data[username].uuid \in ApiUuids(username)
         /\ new_uuid_data' = data
         /\ mon_pc' = IF got # {} THEN "commit" ELSE "check"
  /\ users_needing_uuid' = {}
  /\ UNCHANGED << STATE_LOCK, registry, caches, LATEST_DB_MESSAGE_ID, db_json, cmdvars,
                  uuids_to_check, presence_data, uuid_to_username, mon_todo, mon_cur,
                  mon_net, outbox, cycles, updates >>
  /\ UNCHANGED presence_resp
  /\ UNCHANGED hist_last_seen

\* step 3: under the lock, store the fetched tokens and last-online times
MonCommit ==
  /\ mon_pc = "commit"
  /\ STATE_LOCK = "free"
  /\ user_uuids' = Update(user_uuids, [u \in DOMAIN new_uuid_data |-> new_uuid_data[u].uuid])
  /\ user_last_seen_unix' =
       Update(user_last_seen_unix, [u \in DOMAIN new_uuid_data |-> new_uuid_data[u].last_online_unix])
  /\ new_uuid_data' = EmptyDict
  /\ mon_pc' = "check"
  /\ UNCHANGED << STATE_LOCK, registry, user_last_status, LATEST_DB_MESSAGE_ID, db_json, cmdvars,
                  users_needing_uuid, uuids_to_check, presence_data, uuid_to_username,
                  mon_todo, mon_cur, mon_net, outbox, cycles, updates >>
  /\ UNCHANGED presence_resp
  /\ UNCHANGED hist_last_seen

\* step 4: under the lock, collect the tokens of the handles watched now;
\* with none the cycle ends
MonCheck ==
  /\ mon_pc = "check"
  /\ STATE_LOCK = "free"
  /\ LET current_usernames == get_all_monitored_usernames(user_monitored)
         ids == {user_uuids[u] : u \in current_usernames \cap DOMAIN user_uuids} IN
       /\ uuids_to_check' = ids
       /\ mon_pc' = IF ids = {} THEN "sleep" ELSE "fetch"
  /\ UNCHANGED << STATE_LOCK, registry, caches, LATEST_DB_MESSAGE_ID, db_json, cmdvars,
                  users_needing_uuid, new_uuid_data, presence_data, uuid_to_username,
                  mon_todo, mon_cur, mon_net, outbox, cycles, updates >>
  /\ UNCHANGED presence_resp
  /\ UNCHANGED hist_last_seen

\* a status test that takes every answer for a good one
FetchFailed_never(status_code) == FALSE

\* the status test of the presence response
FetchFailed(status_code) == status_code # 200

\* the presence request, outside the lock: it raises (the handler of the
\* cycle prints the error and sleeps), or it answers with a status code; a
\* status other than 200 ends the cycle (print, sleep, continue), of a 200
\* the status of some of the requested tokens becomes presence_data
MonFetch ==
  /\ mon_pc = "fetch"
  /\ \/ /\ mon_pc' = "failed"
        /\ presence_resp' = << >>
        /\ presence_data' = EmptyDict
        /\ UNCHANGED hist_last_seen
     \/ \E status_code \in StatusCodes : \E ids \in SUBSET uuids_to_check :
          \E users \in [ids -> Statuses] :
            /\ presence_resp' = << [status_code |-> status_code] >>
            /\ IF FetchFailed(status_code)
               THEN /\ mon_pc' = "failed"
                    /\ UNCHANGED hist_last_seen
                    /\ presence_data' = EmptyDict
               ELSE /\ mon_pc' = "process"
                    /\ hist_last_seen' = user_last_seen_unix
                    /\ presence_data' = users
  /\ uuids_to_check' = {}
  /\ UNCHANGED << STATE_LOCK, registry, caches, LATEST_DB_MESSAGE_ID, db_json, cmdvars,
                  users_needing_uuid, new_uuid_data, uuid_to_username, mon_todo,
                  mon_cur, mon_net, outbox, cycles, updates >>

\* step 5 begins: the lock is taken and the reverse map {uuid: username} is
\* built from user_uuids; of two handles with one token the dict keeps the
\* one iterated last
MonProcessBegin ==
  /\ mon_pc = "process"
  /\ STATE_LOCK = "free"
  /\ STATE_LOCK' = "mon"
  /\ LET toks == {user_uuids[u] : u \in DOMAIN user_uuids} IN
       \E rev \in [toks -> DOMAIN user_uuids] :
         /\ \A t \in toks : user_uuids[rev[t]] = t
         /\ uuid_to_username' = rev
  /\ mon_todo' = DOMAIN presence_data
  /\ mon_pc' = "loop"
  /\ UNCHANGED << registry, caches, LATEST_DB_MESSAGE_ID, db_json, cmdvars,
                  users_needing_uuid, new_uuid_data, uuids_to_check, presence_data,
                  mon_cur, mon_net, outbox, cycles, updates >>
  /\ UNCHANGED presence_resp
  /\ UNCHANGED hist_last_seen

\* step 5, one presence entry: an entry of an unknown token is skipped; a
\* handle that comes online starts the fan-out (send_telegram_message per
\* subscriber), one that leaves online starts the last-seen lookup; in all
\* other cases only the status is stored
MonProcessEntry ==
  /\ mon_pc = "loop"
  /\ mon_cur = << >>
  /\ \E uuid \in mon_todo :
       LET username == Get(uuid_to_username, uuid, "None")
           new_status == presence_data[uuid]
           previous_status == Get(user_last_status, username, "None")
           entry == [username |-> username, new_status |-> new_status,
                     previous_status |-> previous_status] IN
       /\ mon_todo' = mon_todo \ {uuid}
       /\ IF username = "None"
          THEN UNCHANGED << user_last_status, mon_cur, mon_net >>
          ELSE IF ComesOnline(new_status, previous_status)
                  /\ Subscribers(user_monitored, username) # {}
          THEN /\ mon_cur' = << entry >>
               /\ mon_net' = "send"
               /\ UNCHANGED user_last_status
          ELSE IF ~ ComesOnline(new_status, previous_status)
                  /\ GoesOffline(new_status, previous_status)
          THEN /\ mon_cur' = << entry >>
               /\ mon_net' = "lookup"
               /\ UNCHANGED user_last_status
          ELSE /\ user_last_status' = Put(user_last_status, username, new_status)
               /\ UNCHANGED << mon_cur, mon_net >>
  /\ UNCHANGED << STATE_LOCK, registry, user_uuids, user_last_seen_unix, LATEST_DB_MESSAGE_ID,
                  db_json, cmdvars, users_needing_uuid, new_uuid_data, uuids_to_check,
                  presence_data, uuid_to_username, mon_pc, outbox, cycles, updates >>
  /\ UNCHANGED presence_resp
  /\ UNCHANGED hist_last_seen

\* step 5, the fan-out returns: one alert went to every user whose watch set
\* contains the handle, and the status is stored
MonNotifyDone ==
  /\ mon_pc = "loop"
  /\ mon_net = "send"
  /\ LET e == mon_cur[1] IN
       /\ outbox' = [p \in Users \X Names |->
                       IF p[2] = e.username /\ p[1] \in Subscribers(user_monitored, e.username)
                       THEN outbox[p] + 1 ELSE outbox[p]]
       /\ user_last_status' = Put(user_last_status, e.username, e.new_status)
  /\ mon_cur' = << >>
  /\ mon_net' = "none"
  /\ UNCHANGED << STATE_LOCK, registry, user_uuids, user_last_seen_unix, LATEST_DB_MESSAGE_ID,
                  db_json, cmdvars, users_needing_uuid, new_uuid_data, uuids_to_check,
                  presence_data, uuid_to_username, mon_todo, mon_pc, cycles, updates >>
  /\ UNCHANGED presence_resp
  /\ UNCHANGED hist_last_seen

\* step 5, the last-seen lookup (get_user_data_from_api) returns: a truthy
\* last_online is stored, and the status is stored
MonLookupDone ==
  /\ mon_pc = "loop"
  /\ mon_net = "lookup"
  /\ \E last_online \in LastOnline :
       LET e == mon_cur[1] IN
       /\ user_last_seen_unix' = IF last_online # 0
                                 THEN Put(user_last_seen_unix, e.username, last_online)
                                 ELSE user_last_seen_unix
       /\ user_last_status' = Put(user_last_status, e.username, e.new_status)
  /\ mon_cur' = << >>
  /\ mon_net' = "none"
  /\ UNCHANGED << STATE_LOCK, registry, user_uuids, LATEST_DB_MESSAGE_ID,
                  db_json, cmdvars, users_needing_uuid, new_uuid_data, uuids_to_check,
                  presence_data, uuid_to_username, mon_todo, mon_pc, outbox, cycles, updates >>
  /\ UNCHANGED presence_resp
  /\ UNCHANGED hist_last_seen

\* step 5 ends: the lock is released and the cycle goes to its sleep
MonProcessEnd ==
  /\ mon_pc = "loop"
  /\ mon_cur = << >>
  /\ mon_todo = {}
  /\ STATE_LOCK' = "free"
  /\ mon_pc' = "sleep"
  /\ presence_data' = EmptyDict
  /\ uuid_to_username' = EmptyDict
  /\ outbox' = [p \in Users \X Names |-> 0]
  /\ UNCHANGED << registry, caches, LATEST_DB_MESSAGE_ID, db_json, cmdvars,
                  users_needing_uuid, new_uuid_data, uuids_to_check, mon_todo, mon_cur,
                  mon_net, cycles, updates >>
  /\ presence_resp' = << >>
  /\ UNCHANGED hist_last_seen

\* a wake-up that never comes after a failed presence request
MonWake_not_after_failure ==
  /\ mon_pc = "sleep"
  /\ mon_pc' = "start"
  /\ STATE_LOCK' = IF STATE_LOCK = "mon" THEN "free" ELSE STATE_LOCK
  /\ UNCHANGED << registry, caches, LATEST_DB_MESSAGE_ID, db_json, cmdvars,
                  users_needing_uuid, new_uuid_data, uuids_to_check, presence_data,
                  uuid_to_username, mon_todo, mon_cur, mon_net, outbox, cycles, updates >>
  /\ presence_resp' = << >>
  /\ hist_last_seen' = user_last_seen_unix

\* time.sleep(CHECK_INTERVAL) returns, at the end of a cycle or after a failed
\* presence request (lines 236 and 271); the sleep of the empty-watch branch
\* of step 1 was inside the lock, which is released on the way out
MonWake ==
  /\ mon_pc \in {"sleep", "failed"}
  /\ mon_pc' = "start"
  /\ STATE_LOCK' = IF STATE_LOCK = "mon" THEN "free" ELSE STATE_LOCK
  /\ UNCHANGED << registry, caches, LATEST_DB_MESSAGE_ID, db_json, cmdvars,
                  users_needing_uuid, new_uuid_data, uuids_to_check, presence_data,
                  uuid_to_username, mon_todo, mon_cur, mon_net, outbox, cycles, updates >>
  /\ presence_resp' = << >>
  /\ hist_last_seen' = user_last_seen_unix

Monitor ==
  \/ MonSnapshot \/ MonResolve \/ MonCommit \/ MonCheck \/ MonFetch
  \/ MonProcessBegin \/ MonProcessEntry \/ MonNotifyDone \/ MonLookupDone
  \/ MonProcessEnd \/ MonWake


\* ------------------------------------------------------------------------
\* handle_commands
\* ------------------------------------------------------------------------
\* the arguments a command text may carry after its first word
ArgsOf(word) ==
  IF word \in {"/authorize", "/unauthorize"} THEN {<< >>} \cup {<< u >> : u \in Users}
  ELSE IF word \in {"/add", "/remove"} THEN {<< >>} \cup {<< n >> : n \in RawNames}
  ELSE {<< >>}

\* the updates getUpdates may deliver: sender and the text as split()
Updates ==
  UNION {{[sender |-> u, word |-> w, args |-> a] : a \in ArgsOf(w)} : u \in Users, w \in Words}

\* len(parts) == 2
TwoParts(upd) == Len(upd.args) = 1

\* the update is handled by the admin block (lines 295-315)
AdminCommand(upd) ==
  /\ upd.sender = BOT_ADMIN_ID
  /\ StartsWith(upd.word, "/authorize") \/ StartsWith(upd.word, "/unauthorize")
  /\ TwoParts(upd)

\* a reply sent with send_telegram_message
Reply(kind, names, limit, lines) == [kind |-> kind, names |-> names, limit |-> limit, lines |-> lines]
Msg(kind) == Reply(kind, << >>, 0, << >>)

\* the check of line 318 after the admin block: the denial, if any
Denial(auth, user_id) == IF Authorized(auth, user_id) THEN << >> ELSE << Msg("denied") >>

\* a write of db.json that dumps the registry as it was before the command
WriteDb_before(um, limits, auth) ==
  db_json' = << payload(user_monitored, PER_USER_LIMITS, AUTHORIZED_USERS, LATEST_DB_MESSAGE_ID) >>

\* save_user_data up to the upload: db.json is written
WriteDb(um, limits, auth) == db_json' = << payload(um, limits, auth, LATEST_DB_MESSAGE_ID) >>

\* one line of the /status reply
StatusLine(username) ==
  LET status == Upper(Get(user_last_status, username, "UNKNOWN")) IN
  [ username |-> username,
    status |-> status,
    icon |-> IF status = "ONLINE" THEN "green" ELSE "black",
    last_seen |-> convert_unix_to_ist(Get(user_last_seen_unix, username, 0)) ]

\* the first request of send_telegram_document: the old snapshot is unpinned
\* when there is one, else the upload starts at once
FirstDocumentCall(latest) == IF latest # 0 THEN "unpin" ELSE "upload"

\* /authorize <id> from the admin: under the lock the id is authorized and
\* save_user_data starts its upload
CmdAuthorize ==
  /\ cmd_pc = "poll"
  /\ updates < MaxUpdates
  /\ updates' = updates + 1
  /\ STATE_LOCK = "free"
  /\ \E upd \in Updates :
       /\ AdminCommand(upd)
       /\ StartsWith(upd.word, "/authorize")
       /\ cmd_cur' = << upd >>
       /\ AUTHORIZED_USERS' = AUTHORIZED_USERS \cup {upd.args[1]}
       /\ WriteDb(user_monitored, PER_USER_LIMITS, AUTHORIZED_USERS')
  /\ STATE_LOCK' = "cmd"
  /\ cmd_pc' = "save"
  /\ cmd_net' = FirstDocumentCall(LATEST_DB_MESSAGE_ID)
  /\ cmd_out' = << >>
  /\ cmd_replies' = << >>
  /\ UNCHANGED << PER_USER_LIMITS, user_monitored, caches, LATEST_DB_MESSAGE_ID, monvars,
                  hist_watch, cycles >>
  /\ UNCHANGED hist_last_seen

\* /unauthorize <id> from the admin: under the lock an authorized id loses
\* its authorization and its watch set and the snapshot is saved; the reply
\* is sent before the lock is released
CmdUnauthorize ==
  /\ cmd_pc = "poll"
  /\ updates < MaxUpdates
  /\ updates' = updates + 1
  /\ STATE_LOCK = "free"
  /\ \E upd \in Updates :
       LET user_to_remove == upd.args[1] IN
       /\ AdminCommand(upd)
       /\ StartsWith(upd.word, "/unauthorize")
       /\ cmd_cur' = << upd >>
       /\ IF user_to_remove \in AUTHORIZED_USERS
          THEN /\ AUTHORIZED_USERS' = AUTHORIZED_USERS \ {user_to_remove}
               /\ user_monitored' = Pop(user_monitored, user_to_remove)
               /\ WriteDb(user_monitored', PER_USER_LIMITS, AUTHORIZED_USERS')
               /\ cmd_pc' = "save"
               /\ cmd_net' = FirstDocumentCall(LATEST_DB_MESSAGE_ID)
               /\ cmd_out' = << Msg("unauthorized") >>
          ELSE /\ cmd_pc' = "reply"
               /\ cmd_net' = "send"
               /\ cmd_out' = << Msg("not_authorized") >>
               /\ UNCHANGED << AUTHORIZED_USERS, user_monitored, db_json >>
  /\ STATE_LOCK' = "cmd"
  /\ cmd_replies' = << >>
  /\ UNCHANGED << PER_USER_LIMITS, caches, LATEST_DB_MESSAGE_ID, monvars, hist_watch, cycles >>
  /\ UNCHANGED hist_last_seen

\* any text from a sender that is not authorized (and that the admin block
\* did not handle): the denial, and the update is done
CmdDenied ==
  /\ cmd_pc = "poll"
  /\ updates < MaxUpdates
  /\ updates' = updates + 1
  /\ \E upd \in Updates :
       /\ ~ AdminCommand(upd)
       /\ ~ Authorized(AUTHORIZED_USERS, upd.sender)
       /\ cmd_cur' = << upd >>
       /\ cmd_replies' = Denial(AUTHORIZED_USERS, upd.sender)
  /\ cmd_pc' = "done"
  /\ UNCHANGED << STATE_LOCK, registry, caches, LATEST_DB_MESSAGE_ID, db_json, monvars,
                  cmd_out, cmd_net, hist_watch, cycles >>
  /\ UNCHANGED hist_last_seen

\* /add <username>: under the lock the sender's watch set is looked up (the
\* defaultdict creates it), and the handle is added and the snapshot saved
\* unless it is watched already or the limit is reached; the reply is sent
\* before the lock is released
CmdAdd ==
  /\ cmd_pc = "poll"
  /\ updates < MaxUpdates
  /\ updates' = updates + 1
  /\ STATE_LOCK = "free"
  /\ \E upd \in Updates :
       LET user_id == upd.sender
           username == Lower(upd.args[1])
           current_set == Get(user_monitored, user_id, {})
           limit == EffectiveLimit(PER_USER_LIMITS, user_id) IN
       /\ ~ AdminCommand(upd)
       /\ Authorized(AUTHORIZED_USERS, user_id)
       /\ StartsWith(upd.word, "/add")
       /\ TwoParts(upd)
       /\ cmd_cur' = << upd >>
       /\ IF username \in current_set
          THEN /\ user_monitored' = Put(user_monitored, user_id, current_set)
               /\ cmd_out' = << Msg("already") >>
               /\ cmd_pc' = "reply"
               /\ cmd_net' = "send"
               /\ UNCHANGED db_json
          ELSE IF LimitReached(current_set, limit)
          THEN /\ user_monitored' = Put(user_monitored, user_id, current_set)
               /\ cmd_out' = << Reply("limit", << >>, limit, << >>) >>
               /\ cmd_pc' = "reply"
               /\ cmd_net' = "send"
               /\ UNCHANGED db_json
          ELSE /\ user_monitored' = Put(user_monitored, user_id, current_set \cup {username})
               /\ WriteDb(user_monitored', PER_USER_LIMITS, AUTHORIZED_USERS)
               /\ cmd_out' = << Reply("added", << username >>, 0, << >>) >>
               /\ cmd_pc' = "save"
               /\ cmd_net' = FirstDocumentCall(LATEST_DB_MESSAGE_ID)
  /\ STATE_LOCK' = "cmd"
  /\ cmd_replies' = << >>
  /\ UNCHANGED << AUTHORIZED_USERS, PER_USER_LIMITS, caches, LATEST_DB_MESSAGE_ID, monvars,
                  hist_watch, cycles >>
  /\ UNCHANGED hist_last_seen

\* /remove <username>: under the lock a watched handle leaves the sender's
\* watch set, the caches of a handle nobody watches any more are dropped and
\* the snapshot is saved; the reply is sent before the lock is released
CmdRemove ==
  /\ cmd_pc = "poll"
  /\ updates < MaxUpdates
  /\ updates' = updates + 1
  /\ STATE_LOCK = "free"
  /\ \E upd \in Updates :
       LET user_id == upd.sender
           username == Lower(upd.args[1])
           um == Put(user_monitored, user_id, Get(user_monitored, user_id, {}) \ {username})
           orphan == Orphaned(um, username) IN
       /\ ~ AdminCommand(upd)
       /\ Authorized(AUTHORIZED_USERS, user_id)
       /\ StartsWith(upd.word, "/remove")
       /\ TwoParts(upd)
       /\ cmd_cur' = << upd >>
       /\ IF username \in Get(user_monitored, user_id, {})
          THEN /\ user_monitored' = um
               /\ user_uuids' = IF orphan THEN Pop(user_uuids, username) ELSE user_uuids
               /\ user_last_status' = IF orphan THEN Pop(user_last_status, username)
                                      ELSE user_last_status
               /\ user_last_seen_unix' = IF orphan THEN Pop(user_last_seen_unix, username)
                                         ELSE user_last_seen_unix
               /\ hist_last_seen' = IF orphan THEN Pop(hist_last_seen, username)
                                    ELSE hist_last_seen
               /\ WriteDb(um, PER_USER_LIMITS, AUTHORIZED_USERS)
               /\ cmd_out' = << Reply("removed", << username >>, 0, << >>) >>
               /\ cmd_pc' = "save"
               /\ cmd_net' = FirstDocumentCall(LATEST_DB_MESSAGE_ID)
          ELSE /\ cmd_out' = << Msg("not_found") >>
               /\ cmd_pc' = "reply"
               /\ cmd_net' = "send"
               /\ UNCHANGED << user_monitored, caches, db_json, hist_last_seen >>
  /\ STATE_LOCK' = "cmd"
  /\ cmd_replies' = << >>
  /\ UNCHANGED << AUTHORIZED_USERS, PER_USER_LIMITS, LATEST_DB_MESSAGE_ID, monvars, hist_watch, cycles >>

\* /add or /remove without exactly one argument: the usage reply
CmdUsage ==
  /\ cmd_pc = "poll"
  /\ updates < MaxUpdates
  /\ updates' = updates + 1
  /\ \E upd \in Updates :
       /\ ~ AdminCommand(upd)
       /\ Authorized(AUTHORIZED_USERS, upd.sender)
       /\ StartsWith(upd.word, "/add") \/ StartsWith(upd.word, "/remove")
       /\ ~ TwoParts(upd)
       /\ cmd_cur' = << upd >>
       /\ cmd_replies' = << Msg(IF StartsWith(upd.word, "/add") THEN "usage_add" ELSE "usage_remove") >>
  /\ cmd_pc' = "done"
  /\ UNCHANGED << STATE_LOCK, registry, caches, LATEST_DB_MESSAGE_ID, db_json, monvars,
                  cmd_out, cmd_net, hist_watch, cycles >>
  /\ UNCHANGED hist_last_seen

\* /list: the sender's watch set is read under the lock and sent, sorted,
\* after the lock is released
CmdList ==
  /\ cmd_pc = "poll"
  /\ updates < MaxUpdates
  /\ updates' = updates + 1
  /\ STATE_LOCK = "free"
  /\ \E upd \in Updates :
       LET monitored_list == sorted(Get(user_monitored, upd.sender, {})) IN
       /\ ~ AdminCommand(upd)
       /\ Authorized(AUTHORIZED_USERS, upd.sender)
       /\ StartsWith(upd.word, "/list")
       /\ cmd_cur' = << upd >>
       /\ cmd_replies' = IF monitored_list = << >> THEN << Msg("list_empty") >>
                         ELSE << Reply("list", monitored_list, 0, << >>) >>
  /\ cmd_pc' = "done"
  /\ UNCHANGED << STATE_LOCK, registry, caches, LATEST_DB_MESSAGE_ID, db_json, monvars,
                  cmd_out, cmd_net, hist_watch, cycles >>
  /\ UNCHANGED hist_last_seen

\* /status: the sender's watch set and the cached status and last-seen time
\* of each handle are read under the lock; the reply of an empty watch set
\* is sent before the lock is released, the status lines after it
CmdStatus ==
  /\ cmd_pc = "poll"
  /\ updates < MaxUpdates
  /\ updates' = updates + 1
  /\ STATE_LOCK = "free"
  /\ \E upd \in Updates :
       LET monitored_list == sorted(Get(user_monitored, upd.sender, {})) IN
       /\ ~ AdminCommand(upd)
       /\ Authorized(AUTHORIZED_USERS, upd.sender)
       /\ StartsWith(upd.word, "/status")
       /\ cmd_cur' = << upd >>
       /\ IF monitored_list = << >>
          THEN /\ STATE_LOCK' = "cmd"
               /\ cmd_out' = << Msg("status_empty") >>
               /\ cmd_pc' = "reply"
               /\ cmd_net' = "send"
               /\ cmd_replies' = << >>
          ELSE /\ cmd_replies' = << Reply("status", monitored_list, 0,
                                     [i \in DOMAIN monitored_list |-> StatusLine(monitored_list[i])]) >>
               /\ cmd_pc' = "done"
               /\ UNCHANGED << STATE_LOCK, cmd_out, cmd_net >>
  /\ UNCHANGED << registry, caches, LATEST_DB_MESSAGE_ID, db_json, monvars, hist_watch, cycles >>
  /\ UNCHANGED hist_last_seen

\* a text of an authorized sender that no branch recognizes: no reply
CmdOther ==
  /\ cmd_pc = "poll"
  /\ updates < MaxUpdates
  /\ updates' = updates + 1
  /\ \E upd \in Updates :
       /\ ~ AdminCommand(upd)
       /\ Authorized(AUTHORIZED_USERS, upd.sender)
       /\ \A w \in {"/add", "/remove", "/list", "/status"} : ~ StartsWith(upd.word, w)
       /\ cmd_cur' = << upd >>
  /\ cmd_replies' = << >>
  /\ cmd_pc' = "done"
  /\ UNCHANGED << STATE_LOCK, registry, caches, LATEST_DB_MESSAGE_ID, db_json, monvars,
                  cmd_out, cmd_net, hist_watch, cycles >>
  /\ UNCHANGED hist_last_seen

\* save_user_data is over. /authorize then leaves the lock, replies and runs
\* into the check of line 318; the other commands go on to their reply,
\* still under the lock
AfterSave ==
  IF StartsWith(cmd_cur[1].word, "/authorize")
  THEN /\ STATE_LOCK' = "free"
       /\ cmd_net' = "none"
       /\ cmd_replies' = << Msg("authorized") >> \o Denial(AUTHORIZED_USERS, cmd_cur[1].sender)
       /\ cmd_pc' = "done"
  ELSE /\ cmd_net' = "send"
       /\ cmd_pc' = "reply"
       /\ UNCHANGED << STATE_LOCK, cmd_replies >>

\* the unpinChatMessage request of send_telegram_document (no timeout) comes
\* back: the upload follows; or it raises, which save_user_data catches, and
\* nothing is uploaded
CmdUnpinDone ==
  /\ cmd_pc = "save"
  /\ cmd_net = "unpin"
  /\ \/ /\ cmd_net' = "upload"
        /\ UNCHANGED << STATE_LOCK, cmd_pc, cmd_replies >>
     \/ AfterSave
  /\ UNCHANGED << registry, caches, LATEST_DB_MESSAGE_ID, db_json, monvars, cmd_cur, cmd_out,
                  hist_watch, cycles, updates >>
  /\ UNCHANGED hist_last_seen

\* the sendDocument request (timeout 10 s) comes back: a message id in the
\* answer becomes LATEST_DB_MESSAGE_ID and the pin request follows; without
\* one (an error answer, an exception) the save is over
CmdSaveDone ==
  /\ cmd_pc = "save"
  /\ cmd_net = "upload"
  /\ \E new_message_id \in MessageIds :
       IF new_message_id # 0
       THEN /\ LATEST_DB_MESSAGE_ID' = new_message_id
            /\ cmd_net' = "pin"
            /\ UNCHANGED << STATE_LOCK, cmd_pc, cmd_replies >>
       ELSE /\ UNCHANGED LATEST_DB_MESSAGE_ID
            /\ AfterSave
  /\ UNCHANGED << registry, caches, db_json, monvars, cmd_cur, cmd_out, hist_watch, cycles, updates >>
  /\ UNCHANGED hist_last_seen

\* the pinChatMessage request (no timeout) comes back or raises: the save is
\* over
CmdPinDone ==
  /\ cmd_pc = "save"
  /\ cmd_net = "pin"
  /\ AfterSave
  /\ UNCHANGED << registry, caches, LATEST_DB_MESSAGE_ID, db_json, monvars, cmd_cur, cmd_out,
                  hist_watch, cycles, updates >>
  /\ UNCHANGED hist_last_seen

\* the reply sent under the lock has gone out and the lock is released; after
\* /unauthorize the admin runs into the check of line 318
CmdReplyDone ==
  /\ cmd_pc = "reply"
  /\ LET upd == cmd_cur[1]
         out == cmd_out[1] IN
       /\ cmd_replies' = << out >> \o (IF AdminCommand(upd)
                                       THEN Denial(AUTHORIZED_USERS, upd.sender) ELSE << >>)
       /\ hist_watch' =
            CASE out.kind = "added" ->
                   [hist_watch EXCEPT ![upd.sender] = @ \cup {IF upd.args[1] = "b" THEN "b" ELSE "a"}]
              [] out.kind = "removed" ->
                   [hist_watch EXCEPT ![upd.sender] = @ \ {IF upd.args[1] = "b" THEN "b" ELSE "a"}]
              [] out.kind = "unauthorized" ->
                   [hist_watch EXCEPT ![upd.args[1]] = {}]
              [] OTHER -> hist_watch
  /\ STATE_LOCK' = "free"
  /\ cmd_net' = "none"
  /\ cmd_out' = << >>
  /\ cmd_pc' = "done"
  /\ UNCHANGED << registry, caches, LATEST_DB_MESSAGE_ID, db_json, monvars, cmd_cur, cycles, updates >>
  /\ UNCHANGED hist_last_seen

\* the loop goes on to the next update
CmdNext ==
  /\ cmd_pc = "done"
  /\ cmd_pc' = "poll"
  /\ cmd_cur' = << >>
  /\ cmd_replies' = << >>
  /\ UNCHANGED << STATE_LOCK, registry, caches, LATEST_DB_MESSAGE_ID, db_json, monvars,
                  cmd_out, cmd_net, hist_watch, cycles, updates >>
  /\ UNCHANGED hist_last_seen

Commands ==
  \/ CmdAuthorize \/ CmdUnauthorize \/ CmdDenied \/ CmdAdd \/ CmdRemove \/ CmdUsage
  \/ CmdList \/ CmdStatus \/ CmdOther \/ CmdUnpinDone \/ CmdSaveDone \/ CmdPinDone
  \/ CmdReplyDone \/ CmdNext

Next == Monitor \/ Commands

Spec == Init /\ [][Next]_vars

\* Both threads keep running, and a request with a timeout comes back: every
\* request of the monitor thread has one, and so have sendMessage and
\* sendDocument of the command thread. unpinChatMessage and pinChatMessage
\* are posted without a timeout, so nothing makes CmdUnpinDone or CmdPinDone
\* happen.
SpecFair ==
  /\ Spec
  /\ WF_vars(Monitor)
  /\ WF_vars(CmdSaveDone)
  /\ WF_vars(CmdReplyDone)
  /\ WF_vars(CmdNext)


\* ------------------------------------------------------------------------
\* Properties
\* ------------------------------------------------------------------------
\* the watch set of a user, empty when the user has no entry
Watch(um, uid) == IF uid \in DOMAIN um THEN um[uid] ELSE {}

\* the cached status of a handle, "None" when there is no entry
Status(cache, x) == IF x \in DOMAIN cache THEN cache[x] ELSE "None"

\* the lowercase form of a typed handle
Canon(n) == IF n \in {"a", "A"} THEN "a" ELSE "b"

\* the update being handled
Upd == cmd_cur[1]

\* an update is taken from getUpdates in this step
Received == cmd_pc = "poll" /\ cmd_pc' # "poll"

\* C1: alerts go out exactly in the step of a cycle in which the cached status
\* of the handle X a presence entry is attributed to turns from not-online to
\* online: one alert to every user whose watch set contains X at that moment,
\* none to anybody else; a step that leaves X's cached status online (a later
\* cycle that fetches online again) sends nothing for X; and when step 5 of a
\* cycle ends, every handle with a fetched status of online is cached online.
C1_FanoutOncePerTransition ==
  [][ /\ ~ (mon_pc = "loop" /\ mon_pc' = "sleep") =>
           \A x \in Names, uid \in Users :
             outbox'[<< uid, x >>] - outbox[<< uid, x >>] =
               IF /\ Status(user_last_status, x) # "online"
                  /\ Status(user_last_status', x) = "online"
                  /\ x \in Watch(user_monitored, uid)
               THEN 1 ELSE 0
      /\ (mon_pc = "loop" /\ mon_pc' = "sleep") =>
           \A t \in DOMAIN presence_data :
             (presence_data[t] = "online" /\ t \in DOMAIN uuid_to_username)
               => Status(user_last_status, uuid_to_username[t]) = "online"
    ]_vars

\* C1 witness: in the second cycle an alert for a handle went to the user
\* that watches it and not to the other user
C1_Witness ==
  /\ cycles = 2
  /\ \E x \in Names : outbox[<< "42", x >>] = 1 /\ outbox[<< "100", x >>] = 0
                      /\ x \notin Watch(user_monitored, "100")

\* C2: no thread is inside a network call while it holds STATE_LOCK.
C2_NoNetworkUnderLock ==
  /\ STATE_LOCK = "mon" => mon_net = "none"
  /\ STATE_LOCK = "cmd" => cmd_net = "none"

LimitOf(uid) == IF uid \in DOMAIN PER_USER_LIMITS THEN PER_USER_LIMITS[uid]
                ELSE MAX_USERNAMES_PER_USER

\* no watch set is larger than its user's limit
WithinLimits ==
  \A uid \in DOMAIN user_monitored : Cardinality(user_monitored[uid]) <= LimitOf(uid)

\* C4: an /add of a new handle by an authorized user whose watch set has
\* reached the user's effective limit is answered with the limit reply and
\* leaves the watch set as it was; and no watch set is ever larger than its
\* user's effective limit.
C4_LimitEnforced ==
  /\ WithinLimits
  /\ [][ /\ WithinLimits'
         /\ ( /\ Received
              /\ Upd'.word = "/add"
              /\ Len(Upd'.args) = 1
              /\ Upd'.sender \in AUTHORIZED_USERS
              /\ Canon(Upd'.args[1]) \notin Watch(user_monitored, Upd'.sender)
              /\ Cardinality(Watch(user_monitored, Upd'.sender)) >= LimitOf(Upd'.sender) )
            => /\ cmd_out' = << Reply("limit", << >>, LimitOf(Upd'.sender), << >>) >>
               /\ Watch(user_monitored', Upd'.sender) = Watch(user_monitored, Upd'.sender)
       ]_vars

\* C4 witness: user 42, at its limit of 1, got the limit reply
C4_Witness ==
  /\ cmd_pc = "done"
  /\ Upd.word = "/add"
  /\ Upd.sender = "42"
  /\ cmd_replies = << Reply("limit", << >>, 1, << >>) >>
  /\ Cardinality(Watch(user_monitored, "42")) = 1

\* a /remove has succeeded and its reply is under way
Removing == cmd_out # << >> /\ cmd_out[1].kind = "removed"

\* C5: the step of a successful /remove of X drops X from the token, status
\* and last-seen caches when no watch set contains X afterwards, and leaves
\* the three caches as they were when another user still watches X; and X is
\* still absent from the caches when the command releases the lock.
C5_RemovePurgesOrphan ==
  [][ /\ (Received /\ Removing') =>
           LET x == cmd_out'[1].names[1] IN
           IF \A uid \in Users : x \notin Watch(user_monitored', uid)
           THEN /\ x \notin DOMAIN user_uuids'
                /\ x \notin DOMAIN user_last_status'
                /\ x \notin DOMAIN user_last_seen_unix'
           ELSE caches' = caches
      /\ (Removing /\ STATE_LOCK = "cmd" /\ STATE_LOCK' = "free") =>
           LET x == cmd_out[1].names[1] IN
           (\A uid \in Users : x \notin Watch(user_monitored', uid))
             => /\ x \notin DOMAIN user_uuids'
                /\ x \notin DOMAIN user_last_status'
                /\ x \notin DOMAIN user_last_seen_unix'
    ]_vars

\* C5 witness: the monitor is about to ask for the presence of a token, so a
\* handle was resolved, and the /remove under way has emptied the caches
C5_Witness ==
  /\ Removing
  /\ mon_pc = "fetch"
  /\ uuids_to_check # {}
  /\ get_all_monitored_usernames(user_monitored) = {}
  /\ DOMAIN user_uuids = {}

\* C6: the step of /unauthorize of an authorized user S removes S's watch
\* set and drops, for every handle S watched that no user watches afterwards,
\* the token, status and last-seen cache entries.
C6_UnauthorizePurgesOrphans ==
  [][ (Received /\ cmd_out' # << >> /\ cmd_out'[1].kind = "unauthorized") =>
        LET s == Upd'.args[1] IN
        /\ s \notin DOMAIN user_monitored'
        /\ \A x \in Watch(user_monitored, s) :
             (\A uid \in Users : x \notin Watch(user_monitored', uid))
               => /\ x \notin DOMAIN user_uuids'
                  /\ x \notin DOMAIN user_last_status'
                  /\ x \notin DOMAIN user_last_seen_unix'
    ]_vars

\* C7: in a step that takes a handle X from watched by nobody to watched by
\* somebody, X has no entry in the status cache.
C7_NewWatchIsUnknown ==
  [][ \A x \in Names :
        ( /\ \A uid \in Users : x \notin Watch(user_monitored, uid)
          /\ \E uid \in Users : x \in Watch(user_monitored', uid) )
        => /\ x \notin DOMAIN user_last_status
           /\ x \notin DOMAIN user_last_status'
    ]_vars

\* C8: while save_user_data is uploading, loading the db.json it wrote into
\* the module-level state of a fresh process gives the watch mapping, the
\* limits and the authorized set of the running registry, and empty token,
\* status and last-seen caches.
C8_SnapshotRoundTrip ==
  cmd_pc = "save" =>
    LET r == load_user_data(FreshRegistry, db_json[1]) IN
    /\ r.um = user_monitored
    /\ r.limits = PER_USER_LIMITS
    /\ r.auth = AUTHORIZED_USERS
    /\ r.uuids = EmptyDict /\ r.status = EmptyDict /\ r.seen = EmptyDict

\* C8 witness: a snapshot is being saved of a registry with a watch set of
\* two handles and a limit, while the caches of the process hold entries
C8_Witness ==
  /\ cmd_pc = "save"
  /\ \E uid \in DOMAIN user_monitored : Cardinality(user_monitored[uid]) = 2
  /\ DOMAIN PER_USER_LIMITS # {}
  /\ DOMAIN user_uuids # {}
  /\ DOMAIN user_last_status # {}

\* C9: an update from a sender that is neither the admin nor authorized is
\* answered with the denial alone and changes neither the watch mapping, the
\* limits, the authorized set nor a cache; db.json is not written and no
\* upload starts.
C9_UnauthorizedDenied ==
  [][ (Received /\ Upd'.sender # BOT_ADMIN_ID /\ Upd'.sender \notin AUTHORIZED_USERS) =>
        /\ cmd_replies' = << Msg("denied") >>
        /\ cmd_pc' = "done"
        /\ registry' = registry
        /\ caches' = caches
        /\ db_json' = db_json
        /\ LATEST_DB_MESSAGE_ID' = LATEST_DB_MESSAGE_ID
        /\ STATE_LOCK' = STATE_LOCK
        /\ cmd_net' = "none"
    ]_vars

\* C9 witness: user 42, not authorized, sent /add with a handle and got the
\* denial
C9_Witness ==
  /\ cmd_pc = "done"
  /\ Upd.sender = "42"
  /\ "42" \notin AUTHORIZED_USERS
  /\ Upd.word = "/add"
  /\ Len(Upd.args) = 1
  /\ cmd_replies = << Msg("denied") >>

\* C10: a command of the admin other than /authorize and /unauthorize is
\* never answered with the authorization denial.
C10_AdminNeverDenied ==
  (cmd_pc = "done" /\ Upd.sender = BOT_ADMIN_ID /\ ~ AdminCommand(Upd)) =>
    \A i \in DOMAIN cmd_replies : cmd_replies[i].kind # "denied"

\* the registry a snapshot holds
Decoded(doc) ==
  [ um |-> [uid \in DOMAIN doc.user_monitored |-> set(doc.user_monitored[uid])],
    limits |-> doc.limits,
    auth |-> set(doc.authorized_users) ]

\* the update is one of the registry-changing commands: /authorize, an
\* /unauthorize of an authorized id, an /add that adds, a /remove that removes
Mutating(upd) ==
  \/ /\ upd.sender = BOT_ADMIN_ID
     /\ Len(upd.args) = 1
     /\ \/ upd.word = "/authorize"
        \/ upd.word = "/unauthorize" /\ upd.args[1] \in AUTHORIZED_USERS
  \/ /\ upd.sender \in AUTHORIZED_USERS
     /\ Len(upd.args) = 1
     /\ \/ /\ upd.word = "/add"
           /\ Canon(upd.args[1]) \notin Watch(user_monitored, upd.sender)
           /\ Cardinality(Watch(user_monitored, upd.sender)) < LimitOf(upd.sender)
        \/ /\ upd.word = "/remove"
           /\ Canon(upd.args[1]) \in Watch(user_monitored, upd.sender)

\* C11: the step that handles a registry-changing command (/authorize, an
\* /unauthorize of an authorized id, an /add that adds, a /remove that removes)
\* writes db.json with the watch mapping, limits and authorized set as they
\* are after the change and starts the upload, with STATE_LOCK held; the
\* registry and the file stay as they are until the save is over, the lock is
\* released only when the command is done, and the next update is taken only
\* after that. The step of any other command writes no snapshot.
C11_MutationsAreSaved ==
  [][ /\ Received =>
           IF Mutating(Upd')
           THEN /\ cmd_pc' = "save"
                /\ cmd_net' \in {"unpin", "upload"}
                /\ STATE_LOCK' = "cmd"
                /\ db_json' # << >>
                /\ Decoded(db_json'[1]) = [ um |-> user_monitored',
                                            limits |-> PER_USER_LIMITS',
                                            auth |-> AUTHORIZED_USERS' ]
           ELSE /\ cmd_pc' # "save"
                /\ db_json' = db_json
      /\ cmd_pc = "save" =>
           /\ registry' = registry
           /\ db_json' = db_json
           /\ cmd_pc' \in {"save", "reply", "done"}
      /\ (STATE_LOCK = "cmd" /\ STATE_LOCK' # "cmd") => (cmd_pc # "poll" /\ cmd_pc' = "done")
      /\ (cmd_pc # "poll" /\ cmd_pc' = "poll") => (cmd_pc = "done" /\ STATE_LOCK # "cmd")
    ]_vars

\* C11 witness: the command thread is inside the save of a /remove that took
\* handle "a" out of the only watch set; db.json holds the emptied watch set
C11_Witness ==
  /\ cmd_pc = "save"
  /\ STATE_LOCK = "cmd"
  /\ Upd.word = "/remove"
  /\ Upd.sender = "42"
  /\ db_json # << >>
  /\ db_json[1].user_monitored = ("42" :> << >>)
  /\ user_monitored = ("42" :> {})

\* C12: a monitor cycle whose presence request fails (it raises, or the
\* answer is not 200) ends in its sleep without STATE_LOCK, and from there
\* the thread always gets back to the start of a cycle, still without the
\* lock; a resolution that fails for every handle leaves the cycle running
\* (on to step 4) without the lock; at the start of a cycle the monitor
\* never holds the lock; and whenever the monitor holds the lock (in step 5,
\* where a send or a lookup may fail) it lets go of it again.
C12_FailedCycleRecovers ==
  /\ [](mon_pc \in {"failed", "start"} => STATE_LOCK # "mon")
  /\ [][ (mon_pc = "resolve" /\ mon_pc' # "resolve") =>
           (mon_pc' \in {"commit", "check"} /\ STATE_LOCK' # "mon") ]_vars
  /\ (mon_pc = "failed") ~> (mon_pc = "start" /\ STATE_LOCK # "mon")
  /\ (STATE_LOCK = "mon") ~> (STATE_LOCK # "mon")

\* C12 witness: the second cycle in a row ended in the sleep after a failed
\* presence request (no status was ever stored), with the lock free
C12_Witness ==
  /\ mon_pc = "failed"
  /\ cycles = 2
  /\ STATE_LOCK = "free"
  /\ user_uuids # EmptyDict
  /\ user_last_status = EmptyDict

\* C13: every network call of the two threads comes back (its timeout ends
\* it): a thread inside a request gets out of it, and a held STATE_LOCK is
\* released again.
C13_CallsAreBounded ==
  /\ (cmd_net # "none") ~> (cmd_net = "none")
  /\ (mon_net # "none") ~> (mon_net = "none")
  /\ (STATE_LOCK # "free") ~> (STATE_LOCK = "free")

\* the update is a command of an authorized user that the handler rejects:
\* an /add of a handle the sender watches already, a /remove of a handle the
\* sender does not watch, an /add or /remove without exactly one argument
Rejected(upd) ==
  /\ upd.sender \in AUTHORIZED_USERS
  /\ \/ upd.word \in {"/add", "/remove"} /\ Len(upd.args) # 1
     \/ /\ upd.word = "/add"
        /\ Len(upd.args) = 1
        /\ Canon(upd.args[1]) \in Watch(user_monitored, upd.sender)
     \/ /\ upd.word = "/remove"
        /\ Len(upd.args) = 1
        /\ Canon(upd.args[1]) \notin Watch(user_monitored, upd.sender)

\* C14: the step that takes a rejected command of an authorized user, and
\* the sending of its explanatory reply, leave every watch set, the limits,
\* the authorized set, the three caches and db.json as they are.
C14_RejectedChangesNothing ==
  [][ ( \/ Received /\ Rejected(Upd')
        \/ cmd_pc = "reply" /\ cmd_out[1].kind \in {"already", "not_found"} ) =>
        /\ \A uid \in Users : Watch(user_monitored', uid) = Watch(user_monitored, uid)
        /\ PER_USER_LIMITS' = PER_USER_LIMITS
        /\ AUTHORIZED_USERS' = AUTHORIZED_USERS
        /\ caches' = caches
        /\ db_json' = db_json
        /\ cmd_pc' \in {"reply", "done"}
    ]_vars

\* C14 witness: user 42, who watches "a", sent "/add A" and got the reply
\* that the handle is watched already
C14_Witness ==
  /\ cmd_pc = "done"
  /\ Upd.sender = "42"
  /\ Upd.word = "/add"
  /\ Upd.args = << "A" >>
  /\ cmd_replies = << Msg("already") >>
  /\ user_monitored["42"] = {"a"}

\* the presence request fails in this step: it raises, or its answer has a
\* status other than 200
FetchFails ==
  /\ mon_pc = "fetch"
  /\ mon_pc' # "fetch"
  /\ presence_resp' = << >> \/ presence_resp'[1].status_code # 200

\* no alert has been sent in the running cycle
NothingSent == \A p \in Users \X Names : outbox[p] = 0

\* C15 as stated: in the sleep of a cycle whose presence request failed, the
\* last-seen cache is as it would be without the cycle, and the cycle has
\* sent no alert.
C15_FailedCycleChangesNothing ==
  mon_pc = "failed" => (user_last_seen_unix = hist_last_seen /\ NothingSent)

\* C15, amended: the step in which the presence request fails leaves the
\* three caches as they are, drops the response and sends nothing; it leads to
\* the sleep that ends the cycle, which no alert and no lookup follows and
\* whose end (the start of the next cycle) changes no cache either; and the
\* cycle has sent no alert.
C15_FailedFetchChangesNothing ==
  /\ [](mon_pc = "failed" => (NothingSent /\ mon_net = "none" /\ presence_data = EmptyDict))
  /\ [][ /\ FetchFails =>
              /\ mon_pc' = "failed"
              /\ caches' = caches
              /\ outbox' = outbox
         /\ (mon_pc = "failed" /\ mon_pc' # "failed") =>
              /\ mon_pc' = "start"
              /\ caches' = caches
              /\ outbox' = outbox
       ]_vars

\* C15 witness: the presence request of the second cycle failed and the
\* cycle is in its sleep; handle "a" is cached online
C15_Witness ==
  /\ mon_pc = "failed"
  /\ cycles = 2
  /\ "a" \in DOMAIN user_last_status
  /\ user_last_status["a"] = "online"

\* the handles in some watch set
Watched == UNION {Watch(user_monitored, uid) : uid \in Users}

\* C16: the presence request built in step 4 carries only tokens that the
\* cache holds for watched handles, so a handle without a token adds nothing
\* to it; step 1 of every cycle that finds a handle watched lists every
\* watched handle without a token, and step 2 follows whenever the list is
\* not empty; step 3 stores the token of every handle step 2 resolved; and a
\* resolution that succeeded is always followed by step 3.
C16_UnresolvedIsRetried ==
  /\ [][ /\ (mon_pc = "check" /\ mon_pc' # "check") =>
              uuids_to_check' = {user_uuids[u] : u \in Watched \cap DOMAIN user_uuids}
         /\ (mon_pc = "start" /\ mon_pc' # "start" /\ Watched # {}) =>
              /\ users_needing_uuid' = Watched \ DOMAIN user_uuids
              /\ users_needing_uuid' # {} => mon_pc' = "resolve"
         /\ (mon_pc = "commit" /\ mon_pc' # "commit") =>
              \A x \in DOMAIN new_uuid_data :
                x \in DOMAIN user_uuids' /\ user_uuids'[x] = new_uuid_data[x].uuid
       ]_vars
  /\ (mon_pc = "commit") ~> (mon_pc = "check")

\* handle x is watched, has a token, and another watched handle has the same
\* token
Collides(x) ==
  /\ x \in Watched \cap DOMAIN user_uuids
  /\ \E y \in (Watched \cap DOMAIN user_uuids) \ {x} : user_uuids[y] = user_uuids[x]

\* C17: no step of the transition step of a cycle changes the cached status
\* of a handle whose token another watched handle shares, or sends an alert
\* for it.
C17_CollisionIsSkipped ==
  [][ mon_pc = "loop" =>
        \A x \in Names : Collides(x) =>
          /\ Status(user_last_status', x) = Status(user_last_status, x)
          /\ \A uid \in Users : outbox'[<< uid, x >>] <= outbox[<< uid, x >>]
    ]_vars

\* the entry of a cache for handle x: << >> when there is none
Entry(cache, x) == IF x \in DOMAIN cache THEN << cache[x] >> ELSE << >>

\* C18: in the transition step of a cycle the last-seen entry of a handle
\* changes only in a step that takes its cached status from online to a
\* fetched status other than online; the cached status of a handle changes
\* only to the status fetched for its token; every presence entry that has
\* been dealt with leaves the fetched status in the status cache; and the
\* token cache does not change.
C18_LastSeenOnlyOnLeavingOnline ==
  [][ mon_pc = "loop" =>
        /\ \A x \in Names :
             /\ Entry(user_last_seen_unix', x) # Entry(user_last_seen_unix, x) =>
                  /\ Status(user_last_status, x) = "online"
                  /\ Status(user_last_status', x) \notin {"online", "None"}
             /\ Status(user_last_status', x) # Status(user_last_status, x) =>
                  \E t \in DOMAIN presence_data :
                    /\ t \in DOMAIN uuid_to_username
                    /\ uuid_to_username[t] = x
                    /\ presence_data[t] = Status(user_last_status', x)
        /\ (mon_cur # << >> /\ mon_cur' = << >>) =>
             Status(user_last_status', mon_cur[1].username) = mon_cur[1].new_status
        /\ (mon_cur = << >> /\ mon_cur' = << >>) =>
             \A t \in (mon_todo \ mon_todo') \cap DOMAIN uuid_to_username :
               Status(user_last_status', uuid_to_username[t]) = presence_data[t]
        /\ user_uuids' = user_uuids
    ]_vars

\* C18 witness: in the transition step of the second cycle the entry of a
\* handle cached online was fetched offline and the last-seen lookup is
\* under way; the handle's last-seen entry is there to be refreshed
C18_Witness ==
  /\ mon_pc = "loop"
  /\ mon_net = "lookup"
  /\ cycles = 2
  /\ mon_cur[1].previous_status = "online"
  /\ mon_cur[1].new_status = "offline"
  /\ Status(user_last_status, mon_cur[1].username) = "online"
  /\ Entry(user_last_seen_unix, mon_cur[1].username) = << 0 >>

\* C19: whenever STATE_LOCK is free, every handle with an entry in the
\* token, status or last-seen cache is in some watch set.
C19_CachedIsWatched ==
  STATE_LOCK = "free" =>
    (DOMAIN user_uuids \cup DOMAIN user_last_status \cup DOMAIN user_last_seen_unix) \subseteq Watched

\* C20: the monitor thread is never in a sleep of the check interval with
\* STATE_LOCK in its hands.
C20_NoSleepUnderLock ==
  mon_pc \in {"sleep", "failed"} => STATE_LOCK # "mon"

\* C21: every user with an entry in the watch mapping is in the authorized
\* set (in every reachable state; the run that starts from the empty registry
\* is among them), and an alert goes only to a user who has an entry in the
\* watch mapping and is authorized at the time it is sent.
C21_WatchersAreAuthorized ==
  /\ [](DOMAIN user_monitored \subseteq AUTHORIZED_USERS)
  /\ [][ \A p \in Users \X Names :
           outbox'[p] > outbox[p] =>
             /\ p[1] \in AUTHORIZED_USERS'
             /\ p[1] \in DOMAIN user_monitored'
             /\ p[2] \in user_monitored'[p[1]] ]_vars

\* C21 witness: the run began with the empty registry (no limit was ever
\* loaded); the admin added handle "b", and the cycle has sent the admin, who
\* is authorized, the alert for it
C21_Witness ==
  /\ PER_USER_LIMITS = EmptyDict
  /\ user_monitored = ("100" :> {"b"})
  /\ "100" \in AUTHORIZED_USERS
  /\ mon_pc = "loop"
  /\ outbox[<< "100", "b" >>] = 1

====
